---- MODULE Spec2Model ----
(***************************************************************************)
(* Kana-Tower: the display/input text alignment (createTextMapping), the   *)
(* display segmenter (splitTextForDisplay), the position validator         *)
(* (validateInputAtPosition) and the long-text game loop that drives them. *)
(*                                                                         *)
(* Strings are sequences of characters; indices are 0-based as in the      *)
(* source. The reading table, the alternate readings and the sequential    *)
(* kana validator live outside the source tree: they are inputs here.      *)
(***************************************************************************)
EXTENDS Integers, Sequences, FiniteSets, TLC

VARIABLES
    displayText,     \* the text shown (kanji, kana)
    inputText,       \* the kana to type
    table,           \* reading table: word -> reading, <<>> when none registered
    altWord,         \* the one word that has alternate readings registered
    altReadings,     \* its alternate readings (getPossibleReadings)
    variations,      \* generateReadingVariations(displayText, inputText)
    longTexts,       \* the texts getRandomLongText may return
    textMapping,     \* TextMapping, or NoMapping before alignment
    call,            \* last pure call: name and arguments
    result,          \* its result
    gameState, score, combo, lives, userInput, currentPosition, errors

vars == <<displayText, inputText, table, altWord, altReadings, variations,
          longTexts, textMapping, call, result,
          gameState, score, combo, lives, userInput, currentPosition, errors>>

inputs == <<displayText, inputText, table, altWord, altReadings, variations,
            longTexts>>
game == <<gameState, score, combo, lives, userInput, currentPosition, errors>>

----------------------------------------------------------------------------
\* Bounds of the model

MaxDisplayLen == 3
MaxInputLen == 3
MaxReadingLen == 6

\* Program constant: the longest compound window probed
MaxWordLength == 10

----------------------------------------------------------------------------
\* Characters

Kanji == {"K1", "K2"}
TextKana == {"ha", "ba"}
Kana == {"ha", "ba", "pa", "ki"}
DisplayChars == Kanji \cup {"ha"}
UNDEF == "undefined"
NoMapping == [displayText |-> <<>>, inputText |-> <<>>, mappings |-> <<>>,
              totalInputLength |-> -1]
NoWord == <<>>
NoVariations == <<UNDEF>>

Min(a, b) == IF a < b THEN a ELSE b
Max(a, b) == IF a > b THEN a ELSE b

Strings(S, lo, hi) == UNION {[1..n -> S] : n \in lo..hi}

\* String.prototype.substring(start, end): both clamped to 0..length, swapped
\* when start > end
substring(s, start, end) ==
    LET a == Max(0, Min(start, Len(s)))
        b == Max(0, Min(end, Len(s)))
    IN  SubSeq(s, Min(a, b) + 1, Max(a, b))

\* s[i] for a 0-based index: undefined out of range
charAt(s, i) == IF i >= 0 /\ i < Len(s) THEN s[i + 1] ELSE UNDEF

----------------------------------------------------------------------------
\* ReadingLookup (kanjiToKanaMapping)

isKanji(c) == c \in Kanji
getKanaReading(word) == IF word \in DOMAIN table THEN table[word] ELSE <<>>
hasKanaReading(word) == getKanaReading(word) # <<>>

----------------------------------------------------------------------------
\* createTextMapping

Entry(di, ii, dc, inp, kanji, word) ==
    [displayIndex |-> di, inputIndex |-> ii, displayChar |-> dc,
     inputChar |-> charAt(inp, ii), isKanji |-> kanji, kanjiWord |-> word,
     readingVariations |-> NoVariations]

\* kanji entries that step the display index along with the input index
KanjiEntries_SpreadsDisplay(di, dc, inp, start, n, word) ==
    LET all == [j \in 1..n |-> Entry(di + j - 1, start + j - 1, dc, inp, TRUE, word)]
    IN  SelectSeq(all, LAMBDA m : m.inputIndex < Len(inp))

\* for (j = 0; j < n; j++) if (start + j < inputText.length) push(...)
KanjiEntries(di, dc, inp, start, n, word) ==
    LET all == [j \in 1..n |-> Entry(di, start + j - 1, dc, inp, TRUE, word)]
    IN  SelectSeq(all, LAMBDA m : m.inputIndex < Len(inp))

\* the reading of potentialWord is registered and the input starts with it
WordMatches(d, inp, di, ii, wordLength) ==
    LET wordReading == getKanaReading(substring(d, di, di + wordLength))
    IN  /\ wordReading # <<>>
        /\ substring(inp, ii, ii + Len(wordReading)) = wordReading

\* a probe that accepts the shortest matching window instead of the longest
ProbeCompound_ShortestFirst(d, inp, di, ii, wordLength) ==
    LET S == {L \in 2..wordLength : WordMatches(d, inp, di, ii, L)}
    IN  IF S = {} THEN 0 ELSE CHOOSE L \in S : \A M \in S : L <= M

\* for (wordLength = min(10, rest); wordLength >= 2; wordLength--) ... break
\* the accepted window length, 0 when none matches
RECURSIVE ProbeCompound(_, _, _, _, _)
ProbeCompound(d, inp, di, ii, wordLength) ==
    IF wordLength < 2 THEN 0
    ELSE IF WordMatches(d, inp, di, ii, wordLength) THEN wordLength
    ELSE ProbeCompound(d, inp, di, ii, wordLength - 1)

\* a length heuristic that shares the whole reading among all characters
CharReadingLength_EvenShare(c, wordLength, i, wordReading, consumed) ==
    LET singleCharReading == getKanaReading(<<c>>)
    IN  IF singleCharReading # <<>> THEN Len(singleCharReading)
        ELSE Max(1, Len(wordReading) \div wordLength)

\* a length heuristic that never consults the kanji's own reading
CharReadingLength_AlwaysInferred(c, wordLength, i, wordReading, consumed) ==
    Max(1, Len(substring(wordReading, consumed, Len(wordReading)))
               \div (wordLength - i))

\* the number of kana attributed to one kanji of a matched compound
CharReadingLength(c, wordLength, i, wordReading, consumed) ==
    LET singleCharReading == getKanaReading(<<c>>)
    IN  IF singleCharReading # <<>> THEN Len(singleCharReading)
        ELSE LET remainingChars == wordLength - i
                 remainingReading == substring(wordReading, consumed, Len(wordReading))
             IN  Max(1, Len(remainingReading) \div remainingChars)

\* for (i = 0; i < wordLength; i++) of the compound branch; the cursor and the
\* entries after character i are computed once and passed on as values
RECURSIVE CompoundLoop(_, _, _, _, _, _, _, _)
CompoundLoop(d, inp, di, ii, wordLength, i, cur, acc) ==
    IF i >= wordLength THEN [mappings |-> acc, inputIndex |-> cur]
    ELSE LET c == d[di + i + 1]
             word == substring(d, di, di + wordLength)
             after ==
                 IF isKanji(c)
                 THEN LET n == CharReadingLength(c, wordLength, i,
                                                 getKanaReading(word), cur - ii)
                      IN  <<cur + n, acc \o KanjiEntries(di + i, c, inp, cur, n, word)>>
                 ELSE <<cur + 1, Append(acc, Entry(di + i, cur, c, inp, FALSE, word))>>
         IN  CHOOSE r \in {CompoundLoop(d, inp, di, ii, wordLength, i + 1, s[1], s[2]) :
                              s \in {after}} : TRUE

\* a single-character branch that passes over a character without a reading
SingleChar_SkipsUnknown(d, inp, di, ii) ==
    LET c == d[di + 1]
    IN  IF isKanji(c) /\ hasKanaReading(<<c>>)
        THEN [mappings |-> KanjiEntries(di, c, inp, ii,
                                        Len(getKanaReading(<<c>>)), <<c>>),
              inputIndex |-> ii + Len(getKanaReading(<<c>>))]
        ELSE [mappings |-> <<>>, inputIndex |-> ii]

\* the branch taken when no compound matches
SingleChar(d, inp, di, ii) ==
    LET c == d[di + 1]
    IN  IF isKanji(c) /\ hasKanaReading(<<c>>)
        THEN LET kanaReading == getKanaReading(<<c>>)
             IN  IF kanaReading # <<>>
                 THEN [mappings |-> KanjiEntries(di, c, inp, ii, Len(kanaReading), <<c>>),
                       inputIndex |-> ii + Len(kanaReading)]
                 ELSE [mappings |-> <<Entry(di, ii, c, inp, TRUE, NoWord)>>,
                       inputIndex |-> ii + 1]
        ELSE [mappings |-> <<Entry(di, ii, c, inp, FALSE, NoWord)>>,
              inputIndex |-> ii + 1]

\* one iteration of the outer while loop, from cursors (di, ii); the accepted
\* window length and the branch's result are computed once
Iteration(d, inp, di, ii) ==
    CHOOSE it \in
        {IF wordLength > 0
         THEN CHOOSE x \in
                  {[mappings |-> r.mappings, inputIndex |-> r.inputIndex,
                    displayIndex |-> di + wordLength, wordLength |-> wordLength] :
                       r \in {CompoundLoop(d, inp, di, ii, wordLength, 0, ii, <<>>)}} :
                  TRUE
         ELSE CHOOSE x \in
                  {[mappings |-> r.mappings, inputIndex |-> r.inputIndex,
                    displayIndex |-> di + 1, wordLength |-> 0] :
                       r \in {SingleChar(d, inp, di, ii)}} :
                  TRUE :
            wordLength \in {ProbeCompound(d, inp, di, ii,
                                          Min(MaxWordLength, Len(d) - di))}} :
        TRUE

\* while (displayIndex < displayText.length && inputIndex < inputText.length)
RECURSIVE AlignLoop(_, _, _, _, _)
AlignLoop(d, inp, di, ii, acc) ==
    IF di < Len(d) /\ ii < Len(inp)
    THEN LET it == Iteration(d, inp, di, ii)
         IN  AlignLoop(d, inp, it.displayIndex, it.inputIndex, acc \o it.mappings)
    ELSE acc

createTextMapping(d, inp) ==
    [displayText |-> d, inputText |-> inp,
     mappings |-> AlignLoop(d, inp, 0, 0, <<>>),
     totalInputLength |-> Len(inp)]

\* the cursors at which the outer loop starts an iteration
RECURSIVE LoopCursors(_, _, _, _)
LoopCursors(d, inp, di, ii) ==
    IF di < Len(d) /\ ii < Len(inp)
    THEN LET it == Iteration(d, inp, di, ii)
         IN  {<<di, ii>>} \cup LoopCursors(d, inp, it.displayIndex, it.inputIndex)
    ELSE {}

----------------------------------------------------------------------------
\* splitTextForDisplay

\* mappings.find(m => m.inputIndex === position): the place (1-based) of the
\* first entry carrying that input index, 0 when none
FindMapping(ms, position) ==
    LET hits == {k \in 1..Len(ms) : ms[k].inputIndex = position}
    IN  IF hits = {} THEN 0 ELSE CHOOSE k \in hits : \A h \in hits : k <= h

\* a kanji that stops being highlighted at the last kana of its reading
IsStillInputtingKanji_Strict(kanjiMappings, currentInputPosition) ==
    \E x \in 1..Len(kanjiMappings) :
        kanjiMappings[x].inputIndex > currentInputPosition

\* kanjiMappings.some(m => m.inputIndex >= currentInputPosition)
IsStillInputtingKanji(kanjiMappings, currentInputPosition) ==
    \E x \in 1..Len(kanjiMappings) :
        kanjiMappings[x].inputIndex >= currentInputPosition

\* a remainder that starts at the highlighted character instead of after it
Highlighted_KeepsCurrent(d, displayPosition, currentDisplayChar) ==
    [completedPart |-> substring(d, 0, displayPosition),
     currentChar |-> <<currentDisplayChar>>,
     remainingPart |-> substring(d, displayPosition, Len(d))]

\* the result that highlights the display character at displayPosition
Highlighted(d, displayPosition, currentDisplayChar) ==
    [completedPart |-> substring(d, 0, displayPosition),
     currentChar |-> <<currentDisplayChar>>,
     remainingPart |-> substring(d, displayPosition + 1, Len(d))]

splitTextForDisplay(mapping, currentInputPosition) ==
    LET k == FindMapping(mapping.mappings, currentInputPosition)
    IN  IF k = 0
        THEN [completedPart |-> mapping.displayText, currentChar |-> <<>>,
              remainingPart |-> <<>>]
        ELSE LET currentMapping == mapping.mappings[k]
                 displayPosition == currentMapping.displayIndex
                 d == mapping.displayText
             IN  IF currentMapping.isKanji
                 THEN LET kanjiMappings == SelectSeq(mapping.mappings,
                              LAMBDA m : m.displayIndex = displayPosition /\ m.isKanji)
                      IN  IF IsStillInputtingKanji(kanjiMappings, currentInputPosition)
                          THEN Highlighted(d, displayPosition, currentMapping.displayChar)
                          ELSE [completedPart |-> substring(d, 0, displayPosition + 1),
                                currentChar |-> <<>>,
                                remainingPart |-> substring(d, displayPosition + 1, Len(d))]
                 ELSE Highlighted(d, displayPosition, currentMapping.displayChar)

\* getTargetCharAtPosition: '' past the end and for an undefined inputChar
getTargetCharAtPosition(mapping, inputPosition) ==
    IF inputPosition >= Len(mapping.mappings) THEN <<>>
    ELSE LET c == mapping.mappings[inputPosition + 1].inputChar
         IN  IF c = UNDEF THEN <<>> ELSE <<c>>

----------------------------------------------------------------------------
\* createAdvancedTextMapping

\* variation characters taken without dropping the variants too short
VariationsAt_Unfiltered(vs, index) ==
    [k \in 1..Len(vs) |-> charAt(vs[k], index)]

\* readingVariations.map(variation => variation[index]).filter(Boolean)
VariationsAt(vs, index) ==
    LET chars == [k \in 1..Len(vs) |-> charAt(vs[k], index)]
    IN  SelectSeq(chars, LAMBDA c : c # UNDEF)

\* baseMapping.mappings.forEach: the kanji entries get the variation characters
AttachVariations(baseMapping, readingVariations) ==
    [baseMapping EXCEPT !.mappings =
        [k \in 1..Len(baseMapping.mappings) |->
            IF baseMapping.mappings[k].isKanji
            THEN [baseMapping.mappings[k] EXCEPT
                     !.readingVariations = VariationsAt(readingVariations, k - 1)]
            ELSE baseMapping.mappings[k]]]

createAdvancedTextMapping(d, baseInputText) ==
    LET readingVariations == variations
        baseMapping == createTextMapping(d, baseInputText)
    IN  AttachVariations(baseMapping, readingVariations)

----------------------------------------------------------------------------
\* validateInputAtPosition

\* multipleReadings.getPossibleReadings
getPossibleReadings(word) == IF word = altWord THEN altReadings ELSE <<>>

\* the first occurrences of the elements of xs, in order
FirstOccurrences(xs) ==
    LET firsts == {i \in 1..Len(xs) : \A j \in 1..(i - 1) : xs[j] # xs[i]}
    IN  [n \in 1..Cardinality(firsts) |->
            xs[CHOOSE i \in firsts : Cardinality({j \in firsts : j <= i}) = n]]

\* an array returned as it is, repeated characters included
Dedup_KeepsAll(xs) == xs

\* Array.from(new Set(xs)); xs is evaluated once, as the array is built once
Dedup(xs) == CHOOSE r \in {FirstOccurrences(s) : s \in {xs}} : TRUE

\* chars.includes(userInput), userInput a string and chars single characters
Includes(chars, text) == \E k \in 1..Len(chars) : text = <<chars[k]>>

\* kanjiMappings.findIndex(m => m.inputIndex === position), 0-based, -1 when none
findIndex(ms, position) == FindMapping(ms, position) - 1

\* the rank of this kana among the entries of its own display character
CharPositionInKanji(mapping, targetMapping, inputPosition) ==
    LET kanjiMappings == SelectSeq(mapping.mappings,
            LAMBDA m : m.displayIndex = targetMapping.displayIndex /\ m.isKanji)
    IN  findIndex(kanjiMappings, inputPosition)

\* the characters the alternative readings contribute at this position
AlternativeChars(mapping, targetMapping, inputPosition) ==
    LET alternativeReadings == getPossibleReadings(targetMapping.kanjiWord)
        charPositionInKanji == CharPositionInKanji(mapping, targetMapping, inputPosition)
        long == SelectSeq(alternativeReadings,
                    LAMBDA reading : charPositionInKanji < Len(reading))
    IN  IF Len(alternativeReadings) > 0
        THEN [k \in 1..Len(long) |-> charAt(long[k], charPositionInKanji)]
        ELSE <<>>

\* possibleChars before the sequential validator's hints are merged in
BasicPossibleChars(mapping, inputPosition) ==
    LET targetMapping == mapping.mappings[inputPosition + 1]
        fromReadings ==
            IF targetMapping.isKanji /\ targetMapping.kanjiWord # NoWord
            THEN AlternativeChars(mapping, targetMapping, inputPosition)
            ELSE <<>>
        fromVariations ==
            IF targetMapping.readingVariations # NoVariations
            THEN targetMapping.readingVariations
            ELSE <<>>
    IN  Dedup(<<targetMapping.inputChar>> \o fromReadings \o fromVariations)

\* a completion test that trusts the sequential validator alone
IsComplete_SequentialOnly(text, targetChar, jv) == jv.isComplete /\ jv.isValid

\* a completion test that takes any valid partial input for complete
IsComplete_AnyValid(text, targetChar, jv) ==
    (text = <<targetChar>>) \/ jv.isValid

\* isComplete of the combined result
IsComplete(text, targetChar, jv) ==
    (text = <<targetChar>>) \/ (jv.isComplete /\ jv.isValid)

\* jv is the answer of validateJapaneseInput(userInput, targetChar)
validateInputAtPosition(mapping, text, inputPosition, jv) ==
    IF inputPosition >= Len(mapping.mappings)
    THEN [isValid |-> FALSE, isComplete |-> FALSE, canContinue |-> FALSE,
          possibleChars |-> <<>>]
    ELSE LET targetChar == mapping.mappings[inputPosition + 1].inputChar
             possibleChars == BasicPossibleChars(mapping, inputPosition)
             isValidBasic == Includes(possibleChars, text)
             isValidAdvanced == jv.isValid
             isComplete == IsComplete(text, targetChar, jv)
             canContinue == (isValidBasic /\ ~isComplete)
                                \/ (jv.isValid /\ jv.canContinue)
             withNext == IF jv.nextPossibleChars # NoVariations
                         THEN possibleChars \o jv.nextPossibleChars
                         ELSE possibleChars
             withPath == IF jv.transformationPath # NoVariations
                              /\ Len(jv.transformationPath) > 2
                         THEN withNext \o jv.transformationPath
                         ELSE withNext
         IN  [isValid |-> isValidBasic \/ isValidAdvanced,
              isComplete |-> isComplete,
              canContinue |-> canContinue,
              possibleChars |-> Dedup(withPath)]

\* SequentialInputValidator (japaneseInput.validateJapaneseInput): the kana a
\* target is reached through, unvoiced -> voiced -> semi-voiced
TransformationPath(targetChar) ==
    CASE targetChar = "ba" -> <<"ha", "ba">>
      [] targetChar = "pa" -> <<"ha", "ba", "pa">>
      [] OTHER -> <<targetChar>>

IsVoicedRow(targetChar) == Len(TransformationPath(targetChar)) > 1

\* the answers its contract allows for (partialInput, targetChar)
validateJapaneseInput(partialInput, targetChar) ==
    LET path == TransformationPath(targetChar)
        onPath == \E k \in 1..(Len(path) - 1) : partialInput = <<path[k]>>
    IN  [isValid |-> partialInput = <<targetChar>> \/ onPath,
         isComplete |-> partialInput = <<targetChar>>,
         canContinue |-> onPath]

\* every answer the validator could give, its optional hints included
SeqHints == {[nextPossibleChars |-> NoVariations, transformationPath |-> NoVariations],
             [nextPossibleChars |-> <<"ba", "pa">>,
              transformationPath |-> <<"ha", "ba", "pa">>]}
SeqAnswers ==
    {[isValid |-> v, isComplete |-> c, canContinue |-> n,
      nextPossibleChars |-> h.nextPossibleChars,
      transformationPath |-> h.transformationPath] :
        v \in BOOLEAN, c \in BOOLEAN, n \in BOOLEAN, h \in SeqHints}

----------------------------------------------------------------------------
\* The inputs of one session

Readings == {<<"ha">>, <<"ha", "ba">>}
Compounds == {<<"K1", "K2">>, <<"K1", "K2", "ha">>}
DictWords == {<<k>> : k \in Kanji} \cup Compounds
Tables == [DictWords -> Readings \cup {<<>>}]

NoCall == [op |-> "none"]

InitCommon ==
    /\ textMapping = NoMapping
    /\ call = NoCall
    /\ result = NoCall
    /\ gameState = "idle" /\ score = 0 /\ combo = 0 /\ lives = 3
    /\ userInput = <<>> /\ currentPosition = 0 /\ errors = 0

Init ==
    /\ displayText \in Strings(DisplayChars, 1, MaxDisplayLen)
    /\ inputText \in Strings(TextKana, 0, MaxInputLen)
    /\ table \in Tables
    /\ altWord = NoWord /\ altReadings = <<>> /\ variations = <<>>
    /\ longTexts = {}
    /\ InitCommon

\* align(displayText, inputText)
Align ==
    /\ textMapping = NoMapping
    /\ textMapping' = createTextMapping(displayText, inputText)
    /\ UNCHANGED <<inputs, call, result, game>>

\* segment(mapping, inputPosition)
Split ==
    /\ textMapping # NoMapping
    /\ call = NoCall
    /\ \E p \in 0..(Len(inputText) + 1) :
        /\ call' = [op |-> "split", position |-> p]
        /\ result' = splitTextForDisplay(textMapping, p)
    /\ UNCHANGED <<inputs, textMapping, game>>

Next == Align \/ Split

Spec == Init /\ [][Next]_vars

----------------------------------------------------------------------------
\* Validation of keystrokes against an aligned text, with one dictionary

Dictionary ==
    (<<"K1">> :> <<"ha", "ba">>) @@ (<<"K2">> :> <<"ha">>)
        @@ (<<"K1", "K2">> :> <<"ha", "ba">>)
        @@ (<<"K1", "K2", "ha">> :> <<"ha">>)

\* (word, its alternate readings)
AltChoices ==
    {<<NoWord, <<>>>>,
     <<<<"K1">>, <<<<"ha", "ba">>, <<"ki", "ha">>>>>>,
     <<<<"K1", "K2">>, <<<<"ha", "ba", "ha">>, <<"ha", "ba", "ba">>>>>>}

VariationChoices == {<<>>, <<<<"ki", "ba">>>>}

UserInputs == {<<>>, <<"ha">>, <<"ba">>, <<"ki">>}

InitValidate ==
    /\ displayText \in Strings(DisplayChars, 1, MaxDisplayLen)
    /\ inputText \in Strings(TextKana, 0, MaxInputLen)
    /\ table = Dictionary
    /\ \E a \in AltChoices : altWord = a[1] /\ altReadings = a[2]
    /\ variations \in VariationChoices
    /\ longTexts = {}
    /\ InitCommon

\* alignWithVariants(displayText, baseInputText)
AlignAdvanced ==
    /\ textMapping = NoMapping
    /\ textMapping' = createAdvancedTextMapping(displayText, inputText)
    /\ UNCHANGED <<inputs, call, result, game>>

\* validate(mapping, userInput, inputPosition)
Validate ==
    /\ textMapping # NoMapping
    /\ call = NoCall
    /\ \E p \in 0..(Len(inputText) + 1), text \in UserInputs, jv \in SeqAnswers :
        /\ call' = [op |-> "validate", position |-> p, userInput |-> text, jv |-> jv]
        /\ result' = validateInputAtPosition(textMapping, text, p, jv)
    /\ UNCHANGED <<inputs, textMapping, game>>

NextValidate == AlignAdvanced \/ Validate

ValidateSpec == InitValidate /\ [][NextValidate]_vars

----------------------------------------------------------------------------
\* The long-text game loop (LongTextModeScreen)

InitialLives == 3
PointsPerChar == 5
BonusPerChar == 10

\* startGame (the start button when idle, the restart button when finished):
\* newText is the text getRandomLongText returns to this call, vs the reading
\* variations generateReadingVariations has for it
StartGame ==
    /\ gameState \in {"idle", "finished"}
    /\ \E newText \in longTexts, vs \in VariationChoices :
         /\ displayText' = newText[1]
         /\ inputText' = newText[2]
         /\ variations' = vs
         /\ \E baseMapping \in {createTextMapping(newText[1], newText[2])} :
                textMapping' = AttachVariations(baseMapping, vs)
    /\ currentPosition' = 0
    /\ userInput' = <<>>
    /\ errors' = 0
    /\ score' = 0
    /\ combo' = 0
    /\ lives' = InitialLives
    /\ gameState' = "playing"
    /\ UNCHANGED <<table, altWord, altReadings, longTexts, call, result>>

\* a completed character that ends the game one position too late
CompleteChar_LateFinish ==
    LET newPosition == currentPosition + 1
        points == PointsPerChar * (combo + 1)
        finished == newPosition > textMapping.totalInputLength
        bonusPoints == textMapping.totalInputLength * BonusPerChar
    IN  /\ currentPosition' = newPosition
        /\ userInput' = <<>>
        /\ score' = score + points + (IF finished THEN bonusPoints ELSE 0)
        /\ combo' = combo + 1
        /\ gameState' = IF finished THEN "finished" ELSE gameState
        /\ UNCHANGED <<lives, errors>>

\* a completed character that moves the cursor two positions
CompleteChar_SkipsAhead ==
    LET newPosition == currentPosition + 2
        points == PointsPerChar * (combo + 1)
        finished == newPosition >= textMapping.totalInputLength
        bonusPoints == textMapping.totalInputLength * BonusPerChar
    IN  /\ currentPosition' = newPosition
        /\ userInput' = <<>>
        /\ score' = score + points + (IF finished THEN bonusPoints ELSE 0)
        /\ combo' = combo + 1
        /\ gameState' = IF finished THEN "finished" ELSE gameState
        /\ UNCHANGED <<lives, errors>>

\* the branch of a completed character: advance, score, finish at the end
CompleteChar ==
    LET newPosition == currentPosition + 1
        points == PointsPerChar * (combo + 1)
        finished == newPosition >= textMapping.totalInputLength
        bonusPoints == textMapping.totalInputLength * BonusPerChar
    IN  /\ currentPosition' = newPosition
        /\ userInput' = <<>>
        /\ score' = score + points + (IF finished THEN bonusPoints ELSE 0)
        /\ combo' = combo + 1
        /\ gameState' = IF finished THEN "finished" ELSE gameState
        /\ UNCHANGED <<lives, errors>>

\* a wrong keystroke that never ends the game
WrongInput_KeepsPlaying ==
    /\ combo' = 0
    /\ errors' = errors + 1
    /\ lives' = Max(0, lives - 1)
    /\ userInput' = <<>>
    /\ UNCHANGED <<currentPosition, score, gameState>>

\* the branch of a wrong keystroke: lose a life, end the game at the last one
WrongInput ==
    /\ combo' = 0
    /\ errors' = errors + 1
    /\ lives' = Max(0, lives - 1)
    /\ userInput' = <<>>
    /\ gameState' = IF lives <= 1 THEN "finished" ELSE gameState
    /\ UNCHANGED <<currentPosition, score>>

\* a handler that penalises every non-empty input that is not complete
handleInputChange_PenalisesPartial(text, jv) ==
    IF gameState # "playing"
    THEN UNCHANGED <<inputs, textMapping, game>>
    ELSE LET validation ==
                 validateInputAtPosition(textMapping, text, currentPosition, jv)
         IN  /\ IF validation.isComplete
                THEN CompleteChar
                ELSE IF Len(text) > 0
                THEN WrongInput
                ELSE /\ userInput' = text
                     /\ UNCHANGED <<gameState, score, combo, lives,
                                    currentPosition, errors>>
             /\ UNCHANGED <<inputs, textMapping>>

\* a handler that penalises an empty buffer like any other wrong input
handleInputChange_PenalisesEmpty(text, jv) ==
    IF gameState # "playing"
    THEN UNCHANGED <<inputs, textMapping, game>>
    ELSE LET validation ==
                 validateInputAtPosition(textMapping, text, currentPosition, jv)
         IN  /\ IF validation.isComplete
                THEN CompleteChar
                ELSE IF ~validation.canContinue
                THEN WrongInput
                ELSE /\ userInput' = text
                     /\ UNCHANGED <<gameState, score, combo, lives,
                                    currentPosition, errors>>
             /\ UNCHANGED <<inputs, textMapping>>

\* handleInputChange(text); jv is the sequential validator's answer
handleInputChange(text, jv) ==
    IF gameState # "playing"
    THEN UNCHANGED <<inputs, textMapping, game>>
    ELSE LET validation ==
                 validateInputAtPosition(textMapping, text, currentPosition, jv)
         IN  /\ IF validation.isComplete
                THEN CompleteChar
                ELSE IF ~validation.canContinue /\ Len(text) > 0
                THEN WrongInput
                ELSE /\ userInput' = text
                     /\ UNCHANGED <<gameState, score, combo, lives,
                                    currentPosition, errors>>
             /\ UNCHANGED <<inputs, textMapping>>

\* the pause button, shown while playing or paused
TogglePause ==
    /\ gameState \in {"playing", "paused"}
    /\ gameState' = IF gameState = "playing" THEN "paused" ELSE "playing"
    /\ UNCHANGED <<inputs, textMapping, call, result, score, combo, lives,
                   userInput, currentPosition, errors>>

\* a keystroke: any text in the input field, any answer of the validator;
\* call and result keep the keystroke, the answer of the sequential
\* validator and the validation result it logs
KeyStroke ==
    \E text \in UserInputs, jv \in SeqAnswers :
        /\ handleInputChange(text, jv)
        /\ IF gameState = "playing"
           THEN /\ call' = [op |-> "input", position |-> currentPosition,
                            userInput |-> text, jv |-> jv]
                /\ result' = validateInputAtPosition(textMapping, text,
                                                     currentPosition, jv)
           ELSE UNCHANGED <<call, result>>

\* the keystroke of a player who types the target of the current position
TypeTarget ==
    /\ gameState = "playing"
    /\ getTargetCharAtPosition(textMapping, currentPosition) # <<>>
    /\ \E jv \in SeqAnswers :
           handleInputChange(getTargetCharAtPosition(textMapping, currentPosition), jv)
    /\ UNCHANGED <<call, result>>

\* the practice texts a session may draw (getRandomLongText): kana only, one
\* kanji, a voiced target, a reading the input does not follow, a compound,
\* an input longer than the readings, a compound longer than the input
AllTexts ==
    {<<<<"ha">>, <<"ha">>>>,
     <<<<"K2">>, <<"ha">>>>,
     <<<<"K1">>, <<"ha", "ba">>>>,
     <<<<"K1">>, <<"ba">>>>,
     <<<<"K2", "ha">>, <<"ha", "ba">>>>,
     <<<<"K1", "K2">>, <<"ha", "ba", "ha">>>>,
     <<<<"K1">>, <<"ha", "ha", "ha">>>>,
     <<<<"ha", "K1">>, <<"ba", "ha", "ba">>>>,
     <<<<"K1", "K2", "ha">>, <<"ha">>>>,
     <<<<"K1", "K2", "ha">>, <<"ha", "ba", "ha", "ha">>>>,
     <<<<"ha", "K1", "K2", "ha">>, <<"ha", "ha", "ba", "ha">>>>}

TextBank ==
    {t \in AllTexts : Len(t[1]) <= MaxDisplayLen /\ Len(t[2]) <= MaxInputLen}

\* the screen before the first start: no text yet (currentText is null, no
\* mapping), the texts in bank are the ones a start may draw
InitScreen(bank) ==
    /\ displayText = <<>> /\ inputText = <<>> /\ variations = <<>>
    /\ table = Dictionary
    /\ \E a \in AltChoices : altWord = a[1] /\ altReadings = a[2]
    /\ longTexts = bank
    /\ InitCommon

\* every display with every non-empty input
AnyTexts ==
    {<<d, i>> : d \in Strings(DisplayChars, 1, MaxDisplayLen),
                i \in Strings(TextKana, 1, MaxInputLen)}

\* the practice texts of kana only and of one compound
ShortTexts ==
    {<<<<"ha">>, <<"ha">>>>, <<<<"K1", "K2">>, <<"ha", "ba", "ha">>>>}

\* a screen whose starts draw from two texts: any non-empty text of the
\* dictionary and a short practice text
InitGame == \E t \in AnyTexts, u \in ShortTexts : InitScreen({t, u})

\* sessions of a player who only ever types the target, and keeps typing
NextPerfect == StartGame \/ TypeTarget

PerfectSpec == InitGame /\ [][NextPerfect]_vars /\ WF_vars(TypeTarget)

\* a screen whose starts draw the practice texts
InitSession == InitScreen(TextBank)

\* sessions with arbitrary keystrokes
NextGame == StartGame \/ KeyStroke \/ TogglePause

GameSpec == InitSession /\ [][NextGame]_vars

----------------------------------------------------------------------------
\* Properties of the alignment and of the segmenter (specification Spec)

Aligned == textMapping # NoMapping
Mappings == textMapping.mappings
Indices == 1..Len(Mappings)

RECURSIVE ConcatReadings(_)
ConcatReadings(d) ==
    IF d = <<>> THEN <<>>
    ELSE (IF isKanji(d[1]) THEN getKanaReading(<<d[1]>>) ELSE <<d[1]>>)
             \o ConcatReadings(Tail(d))

\* every kanji has a single-character reading and the readings spell inputText
WellFormed ==
    /\ \A i \in 1..Len(displayText) :
           isKanji(displayText[i]) => hasKanaReading(<<displayText[i]>>)
    /\ ConcatReadings(displayText) = inputText

Contiguous == \A k \in Indices : Mappings[k].inputIndex = k - 1

\* C1: on a well-formed pair the inputIndex values are exactly
\* 0..totalInputLength-1, in order, whichever compound readings are registered
C1_WellFormedCoversInput ==
    (Aligned /\ WellFormed) =>
        /\ Len(Mappings) = textMapping.totalInputLength
        /\ Contiguous

\* a well-formed pair aligned through a registered compound, multi-kana kanji
C1_Witness ==
    /\ Aligned /\ WellFormed
    /\ Len(inputText) >= 3
    /\ \E k \in Indices : Len(Mappings[k].kanjiWord) >= 2

\* C2: for any inputs and any reading table, mappings[k].inputIndex = k
C2_NoSkipNoDuplicate == Aligned => Contiguous

\* the window lengths that match at cursors (di, ii)
MatchingLengths(di, ii) ==
    {L \in 2..Min(MaxWordLength, Len(displayText) - di) :
        WordMatches(displayText, inputText, di, ii, L)}

Longest(S) == CHOOSE L \in S : \A M \in S : M <= L

\* C3: when several window lengths match at a cursor of the outer loop, the
\* entries of the longest window's display characters all carry the longest
\* matching substring as kanjiWord, none a shorter match
C3_LongestMatchWins ==
    Aligned =>
        \A cur \in LoopCursors(displayText, inputText, 0, 0) :
            LET S == MatchingLengths(cur[1], cur[2])
                L == Longest(S)
                word == substring(displayText, cur[1], cur[1] + L)
            IN  Cardinality(S) >= 2 =>
                    /\ \E k \in Indices :
                           /\ Mappings[k].displayIndex = cur[1]
                           /\ Mappings[k].inputIndex = cur[2]
                    /\ \A k \in Indices :
                           Mappings[k].displayIndex \in cur[1]..(cur[1] + L - 1)
                               => Mappings[k].kanjiWord = word

\* an alignment in which two window lengths matched at one cursor
C3_Witness ==
    /\ Aligned
    /\ \E cur \in LoopCursors(displayText, inputText, 0, 0) :
           Cardinality(MatchingLengths(cur[1], cur[2])) >= 2

HasEntry(p) == \E k \in Indices : Mappings[k].inputIndex = p

\* C8: the three parts concatenate to displayText when the position has an
\* entry; without one completedPart is displayText and the others are empty
C8_SegmentsPartition ==
    call.op = "split" =>
        IF HasEntry(call.position)
        THEN result.completedPart \o result.currentChar \o result.remainingPart
                 = displayText
        ELSE /\ result.completedPart = displayText
             /\ result.currentChar = <<>>
             /\ result.remainingPart = <<>>

\* a segmentation in the middle of the text, at the second kana of a kanji
C8_Witness ==
    /\ call.op = "split"
    /\ \E k \in Indices :
           /\ k > 1
           /\ Mappings[k].inputIndex = call.position
           /\ Mappings[k].isKanji
           /\ Mappings[k - 1].displayIndex = Mappings[k].displayIndex
           /\ Mappings[k].displayIndex >= 1
           /\ Mappings[k].displayIndex + 1 < Len(displayText)

\* the input positions of the kana attributed to the kanji at display index x
KanaOf(x) ==
    {Mappings[k].inputIndex : k \in {j \in Indices :
        Mappings[j].displayIndex = x /\ Mappings[j].isKanji}}

IsPrefix(s, t) == Len(s) <= Len(t) /\ s = SubSeq(t, 1, Len(s))

\* C9: a kanji with a reading of two or more kana is currentChar, outside
\* completedPart and remainingPart, at every position of its reading, and
\* lies inside completedPart at the position after its last kana
C9_KanjiHighlightedWhole ==
    call.op = "split" =>
        \A x \in 0..(Len(displayText) - 1) :
            LET kana == KanaOf(x)
                last == CHOOSE q \in kana : \A r \in kana : r <= q
            IN  Cardinality(kana) >= 2 =>
                    /\ call.position \in kana =>
                           /\ result.currentChar = <<displayText[x + 1]>>
                           /\ result.completedPart = SubSeq(displayText, 1, x)
                           /\ result.remainingPart
                                  = SubSeq(displayText, x + 2, Len(displayText))
                    /\ call.position = last + 1 =>
                           /\ Len(result.completedPart) >= x + 1
                           /\ IsPrefix(result.completedPart, displayText)

\* a segmentation at the last kana of a two-kana kanji
C9_Witness ==
    /\ call.op = "split"
    /\ \E x \in 0..(Len(displayText) - 1) :
           /\ Cardinality(KanaOf(x)) >= 2
           /\ call.position \in KanaOf(x)
           /\ call.position + 1 \notin KanaOf(x)

\* a segmentation just past a two-kana kanji that other text follows
C9_WitnessPast ==
    /\ call.op = "split"
    /\ \E x \in 0..(Len(displayText) - 2) :
           /\ Cardinality(KanaOf(x)) >= 2
           /\ call.position - 1 \in KanaOf(x)
           /\ call.position \notin KanaOf(x)
           /\ HasEntry(call.position)

----------------------------------------------------------------------------
\* Properties of the position validator (specification ValidateSpec)

Validated == call.op = "validate" /\ call.position < Len(Mappings)
Target == Mappings[call.position + 1]

AllFalse == [isValid |-> FALSE, isComplete |-> FALSE, canContinue |-> FALSE,
             possibleChars |-> <<>>]

\* C4: at a position with an entry, a userInput equal to the entry's inputChar
\* is complete and valid whatever the sequential validator answers
C4_TargetCompletes ==
    (Validated /\ call.userInput = <<Target.inputChar>>) =>
        result.isComplete /\ result.isValid

\* the target typed at a kanji position, the sequential validator rejecting it
C4_Witness ==
    /\ Validated
    /\ call.userInput = <<Target.inputChar>>
    /\ Target.isKanji
    /\ ~call.jv.isValid /\ ~call.jv.isComplete /\ ~call.jv.canContinue

\* C5: at every inputPosition >= totalInputLength the result is all-false with
\* no possibleChars
C5_PastEndAllFalse ==
    (call.op = "validate" /\ call.position >= textMapping.totalInputLength) =>
        result = AllFalse

\* the sequential validator answered as its contract prescribes
ContractAnswer ==
    LET a == validateJapaneseInput(call.userInput, Target.inputChar)
    IN  /\ call.jv.isValid = a.isValid
        /\ call.jv.isComplete = a.isComplete
        /\ call.jv.canContinue = a.canContinue

UnvoicedBase(c) == TransformationPath(c)[1]
OnRow(text, c) ==
    \E k \in 1..Len(TransformationPath(c)) : text = <<TransformationPath(c)[k]>>

VoicedTarget == Validated /\ IsVoicedRow(Target.inputChar) /\ ContractAnswer

\* the unvoiced base typed toward a voiced target is valid and continuable
BaseFormContinues ==
    (VoicedTarget /\ call.userInput = <<UnvoicedBase(Target.inputChar)>>) =>
        result.isValid /\ ~result.isComplete /\ result.canContinue

\* C6 as stated: the base form continues, and any input off the row is
\* invalid and not continuable
C6_Original ==
    /\ BaseFormContinues
    /\ (VoicedTarget /\ ~OnRow(call.userInput, Target.inputChar)) =>
           ~result.isValid /\ ~result.canContinue

\* C6 amended: an input off the row is invalid and not continuable unless it
\* is one of the position's basic possibleChars (an alternate reading's
\* character or a reading variation)
C6_VoicedRowTolerance ==
    /\ BaseFormContinues
    /\ (/\ VoicedTarget
        /\ ~OnRow(call.userInput, Target.inputChar)
        /\ ~Includes(BasicPossibleChars(textMapping, call.position), call.userInput))
           => ~result.isValid /\ ~result.canContinue

\* the unvoiced base typed at a voiced kana of a kanji's reading
C6_Witness ==
    /\ VoicedTarget
    /\ Target.isKanji
    /\ call.userInput = <<UnvoicedBase(Target.inputChar)>>

\* an unrelated kana typed at a voiced target that has alternate readings
C6_WitnessOffRow ==
    /\ VoicedTarget
    /\ Target.kanjiWord = altWord /\ altWord # NoWord
    /\ call.userInput # <<>>
    /\ ~OnRow(call.userInput, Target.inputChar)
    /\ ~Includes(BasicPossibleChars(textMapping, call.position), call.userInput)

\* 0-based index of the first occurrence of c in word
IndexIn(word, c) == (CHOOSE i \in 1..Len(word) :
                        word[i] = c /\ \A j \in 1..(i - 1) : word[j] # c) - 1

\* the offset of the kana at inputPosition p within the reading of its word
OffsetInWord(p) ==
    LET e == Mappings[p + 1]
        wordStart == e.displayIndex - IndexIn(e.kanjiWord, e.displayChar)
        ofWord == {k \in Indices :
                      /\ Mappings[k].kanjiWord = e.kanjiWord
                      /\ Mappings[k].displayIndex >= wordStart
                      /\ Mappings[k].displayIndex < wordStart + Len(e.kanjiWord)}
        first == CHOOSE k \in ofWord : \A j \in ofWord : k <= j
    IN  p - Mappings[first].inputIndex

NoDuplicates(xs) == \A i, j \in 1..Len(xs) : xs[i] = xs[j] => i = j
Contains(xs, c) == \E k \in 1..Len(xs) : xs[k] = c

\* C7: at each kana position of a word with two alternate readings,
\* possibleChars is duplicate-free and contains the character each reading
\* has at the kana's offset within the word's reading
C7_BothReadingsIncluded ==
    (/\ Validated
     /\ Target.isKanji
     /\ Target.kanjiWord # NoWord
     /\ Target.kanjiWord = altWord
     /\ Len(altReadings) = 2) =>
        /\ NoDuplicates(result.possibleChars)
        /\ \A r \in 1..2 :
               OffsetInWord(call.position) < Len(altReadings[r]) =>
                   Contains(result.possibleChars,
                            altReadings[r][OffsetInWord(call.position) + 1])

----------------------------------------------------------------------------
\* Properties of the game loop

\* every position of the input text has a target: the text is not empty and
\* the alignment did not run out of display text before the input text
Playable ==
    /\ Len(inputText) >= 1
    /\ Len(createAdvancedTextMapping(displayText, inputText).mappings) >= Len(inputText)

Finished ==
    /\ gameState = "finished"
    /\ currentPosition = textMapping.totalInputLength
    /\ lives = InitialLives

\* C10 as stated: on any display/input pair the player who types the target
\* at every step reaches 'finished' with currentPosition = totalInputLength
C10_Original == (gameState = "playing") ~> Finished

\* C10 amended: on a pair whose every input position has a mapping entry,
\* each keystroke of that player advances the cursor by one and costs no
\* life, and the session reaches 'finished' at currentPosition =
\* totalInputLength
C10_PerfectPlayerFinishes ==
    /\ [][(gameState = "playing" /\ Playable) =>
              /\ currentPosition' = currentPosition + 1
              /\ lives' = lives
              /\ errors' = errors
              /\ currentPosition' <= textMapping.totalInputLength]_vars
    /\ (gameState = "playing" /\ Playable) ~> Finished

\* a session finished by typing a text of three kana, a compound among them
C10_Witness ==
    /\ Finished
    /\ Playable
    /\ Len(inputText) >= 3
    /\ \E k \in Indices : Len(Mappings[k].kanjiWord) >= 2

----------------------------------------------------------------------------
\* Properties of sessions with arbitrary keystrokes (specification GameSpec)

\* this step processes a keystroke while playing: call' and result' are the
\* keystroke and its validation result
Processed == gameState = "playing" /\ gameState' # "paused"

\* this step starts a session
Starts == gameState \in {"idle", "finished"} /\ gameState' = "playing"

\* C11: a keystroke processed while playing advances currentPosition by
\* exactly 1 and clears the buffer when its validation is complete, and
\* leaves currentPosition unchanged otherwise; no other step of a session
\* moves the cursor, which stays within 0..totalInputLength
C11_CursorAdvancesByOne ==
    /\ [](Aligned => currentPosition \in 0..textMapping.totalInputLength)
    /\ [][/\ (Processed =>
                 IF result'.isComplete
                 THEN currentPosition' = currentPosition + 1 /\ userInput' = <<>>
                 ELSE currentPosition' = currentPosition)
           /\ ((~Processed /\ ~Starts) => currentPosition' = currentPosition)
           /\ (~Starts => currentPosition' >= currentPosition)]_vars

\* a session still playing after the second of three kana was completed
C11_Witness ==
    /\ gameState = "playing"
    /\ call.op = "input"
    /\ result.isComplete
    /\ call.position = 1
    /\ currentPosition = 2
    /\ userInput = <<>>

----------------------------------------------------------------------------
\* Properties of the advanced mapping (specification AdvancedSpec)

\* results of generateReadingVariations: none, one, two of unequal lengths
AdvancedVariations ==
    {<<>>, <<<<"ki", "ba">>>>, <<<<"ki">>, <<"ba", "ki", "ha">>>>}

InitAdvanced ==
    /\ displayText \in Strings(DisplayChars, 1, MaxDisplayLen)
    /\ inputText \in Strings(TextKana, 0, MaxInputLen)
    /\ table = Dictionary
    /\ altWord = NoWord /\ altReadings = <<>>
    /\ variations \in AdvancedVariations
    /\ longTexts = {}
    /\ InitCommon

AdvancedSpec == InitAdvanced /\ [][AlignAdvanced]_vars

BaseMapping == createTextMapping(displayText, inputText)

\* the characters the variations long enough have at array index k (1-based)
ExpectedVariations(k) ==
    LET long == SelectSeq(variations, LAMBDA v : Len(v) >= k)
    IN  [n \in 1..Len(long) |-> long[n][k]]

\* C12: the advanced mapping equals the base mapping in every field but
\* readingVariations, which is set on the kanji entries only and holds the
\* character each variation long enough has at the entry's array index
C12_AdvancedKeepsBaseMapping ==
    Aligned =>
        /\ textMapping.displayText = BaseMapping.displayText
        /\ textMapping.inputText = BaseMapping.inputText
        /\ textMapping.totalInputLength = BaseMapping.totalInputLength
        /\ Len(Mappings) = Len(BaseMapping.mappings)
        /\ \A k \in Indices :
               /\ [Mappings[k] EXCEPT !.readingVariations = NoVariations]
                      = BaseMapping.mappings[k]
               /\ Mappings[k].readingVariations =
                      IF Mappings[k].isKanji THEN ExpectedVariations(k)
                      ELSE NoVariations

\* a mapping with a kana entry, a kanji entry within both variations and a
\* kanji entry past the end of the shorter variation
C12_Witness ==
    /\ Aligned
    /\ variations # <<>>
    /\ \E k \in Indices : ~Mappings[k].isKanji
    /\ \E k \in Indices : Mappings[k].isKanji /\ Len(Mappings[k].readingVariations) = 2
    /\ \E k \in Indices : Mappings[k].isKanji /\ Len(Mappings[k].readingVariations) = 1

----------------------------------------------------------------------------
\* The outer loop of createTextMapping, one iteration per step
\* (specification LoopSpec): call holds the cursors, result the entries so far

AlignStart ==
    /\ textMapping = NoMapping
    /\ call = NoCall
    /\ call' = [op |-> "align", displayIndex |-> 0, inputIndex |-> 0]
    /\ result' = <<>>
    /\ UNCHANGED <<inputs, textMapping, game>>

AlignStep ==
    /\ call.op = "align"
    /\ call.displayIndex < Len(displayText) /\ call.inputIndex < Len(inputText)
    /\ \E it \in {Iteration(displayText, inputText, call.displayIndex,
                             call.inputIndex)} :
           /\ call' = [op |-> "align", displayIndex |-> it.displayIndex,
                       inputIndex |-> it.inputIndex]
           /\ result' = result \o it.mappings
    /\ UNCHANGED <<inputs, textMapping, game>>

AlignReturn ==
    /\ call.op = "align"
    /\ ~(call.displayIndex < Len(displayText) /\ call.inputIndex < Len(inputText))
    /\ textMapping' = [displayText |-> displayText, inputText |-> inputText,
                       mappings |-> result, totalInputLength |-> Len(inputText)]
    /\ call' = [op |-> "aligned"]
    /\ UNCHANGED <<inputs, result, game>>

NextLoop == AlignStart \/ AlignStep \/ AlignReturn

LoopSpec == Init /\ [][NextLoop]_vars /\ WF_vars(NextLoop)

\* the character under the display cursor has no reading of its own and
\* starts no registered compound
MissingReading ==
    /\ call.op = "align"
    /\ call.displayIndex < Len(displayText) /\ call.inputIndex < Len(inputText)
    /\ MatchingLengths(call.displayIndex, call.inputIndex) = {}
    /\ ~hasKanaReading(<<displayText[call.displayIndex + 1]>>)

\* C13: every iteration of the outer loop advances both cursors by at least
\* 1, a character with a missing reading yields one one-to-one entry, and
\* the loop ends with the mapping returned
C13_AlignmentTerminates ==
    /\ [][(call.op = "align" /\ call'.op = "align") =>
              /\ call'.displayIndex >= call.displayIndex + 1
              /\ call'.inputIndex >= call.inputIndex + 1
              /\ MissingReading =>
                     /\ call'.displayIndex = call.displayIndex + 1
                     /\ call'.inputIndex = call.inputIndex + 1
                     /\ Len(result') = Len(result) + 1
                     /\ result'[Len(result')].displayIndex = call.displayIndex
                     /\ result'[Len(result')].inputIndex = call.inputIndex
                     /\ result'[Len(result')].displayChar =
                            displayText[call.displayIndex + 1]
                     /\ result'[Len(result')].inputChar =
                            inputText[call.inputIndex + 1]]_vars
    /\ [](Aligned => textMapping = createTextMapping(displayText, inputText))
    /\ <>Aligned

\* a returned mapping whose loop ran three iterations, one of them over a
\* kanji without a reading
C13_Witness ==
    /\ Aligned
    /\ call.op = "aligned"
    /\ Cardinality(LoopCursors(displayText, inputText, 0, 0)) = 3
    /\ \E k \in Indices :
           /\ isKanji(Mappings[k].displayChar)
           /\ ~hasKanaReading(<<Mappings[k].displayChar>>)
           /\ Mappings[k].kanjiWord = NoWord

----------------------------------------------------------------------------
\* Further properties of the alignment (specification Spec)

\* C15: no entry has an inputIndex past the end of the input: every entry's
\* inputChar is inputText[inputIndex], a defined character, and there are at
\* most totalInputLength entries
C15_NoEntryPastInput ==
    Aligned =>
        /\ \A k \in Indices :
               /\ Mappings[k].inputIndex < Len(inputText)
               /\ Mappings[k].inputChar # UNDEF
               /\ Mappings[k].inputChar = charAt(inputText, Mappings[k].inputIndex)
        /\ Len(Mappings) <= textMapping.totalInputLength

\* the input indices of the entries one iteration emits
EmittedIndices(it) == {it.mappings[k].inputIndex : k \in 1..Len(it.mappings)}

\* C16: an accepted compound with reading R at input cursor c yields entries
\* tagged with the compound, at exactly the input indices c..c+|R|-1, and
\* leaves the input cursor at c+|R|
C16_CompoundCoversItsReading ==
    Aligned =>
        \A cur \in LoopCursors(displayText, inputText, 0, 0) :
            MatchingLengths(cur[1], cur[2]) # {} =>
                LET L == Longest(MatchingLengths(cur[1], cur[2]))
                    word == substring(displayText, cur[1], cur[1] + L)
                    R == getKanaReading(word)
                    it == Iteration(displayText, inputText, cur[1], cur[2])
                IN  /\ \A k \in 1..Len(it.mappings) : it.mappings[k].kanjiWord = word
                    /\ EmittedIndices(it) = cur[2]..(cur[2] + Len(R) - 1)
                    /\ it.inputIndex = cur[2] + Len(R)

\* the result that shows the display character at D completed and highlights
\* nothing
ConsumedOutcome(D) ==
    [completedPart |-> substring(displayText, 0, D + 1),
     currentChar |-> <<>>,
     remainingPart |-> substring(displayText, D + 1, Len(displayText))]

\* C17: for a kanji whose reading is followed by further entries, some input
\* position that has an entry makes splitTextForDisplay return the kanji
\* inside completedPart with currentChar empty
C17_ConsumedKanjiShown ==
    Aligned =>
        \A k \in Indices :
            (/\ Mappings[k].isKanji
             /\ \E j \in Indices :
                    Mappings[j].displayIndex > Mappings[k].displayIndex) =>
                \E p \in 0..Len(inputText) :
                    /\ HasEntry(p)
                    /\ splitTextForDisplay(textMapping, p)
                           = ConsumedOutcome(Mappings[k].displayIndex)

\* the entries of the mapping emitted for display position D
EntriesAt(D) == {k \in Indices : Mappings[k].displayIndex = D}

\* a kanji without a reading of its own that no accepted compound covers
UnreadKanjiAt(D) ==
    /\ isKanji(displayText[D + 1])
    /\ ~hasKanaReading(<<displayText[D + 1]>>)
    /\ \E cur \in LoopCursors(displayText, inputText, 0, 0) :
           cur[1] = D /\ MatchingLengths(cur[1], cur[2]) = {}

\* C18: an entry's isKanji flag is true exactly when its displayChar is a
\* kanji; a kanji without a reading outside any matched compound yields
\* exactly one entry, flagged isKanji, one-to-one with the input
C18_FlagFollowsLookup ==
    Aligned =>
        /\ \A k \in Indices : Mappings[k].isKanji = isKanji(Mappings[k].displayChar)
        /\ \A D \in 0..(Len(displayText) - 1) :
               UnreadKanjiAt(D) =>
                   /\ Cardinality(EntriesAt(D)) = 1
                   /\ \A k \in EntriesAt(D) : Mappings[k].isKanji

----------------------------------------------------------------------------
\* Further properties of sessions (specification GameSpec)

\* the keystroke of this step is a basic possible character of the current
\* position other than its target
AlternativeTyped ==
    /\ Processed
    /\ currentPosition < Len(Mappings)
    /\ Includes(BasicPossibleChars(textMapping, currentPosition), call'.userInput)
    /\ call'.userInput # <<Mappings[currentPosition + 1].inputChar>>

\* C19: a keystroke equal to a basic possible character other than the
\* target, which the sequential validator does not report complete, is
\* valid, not complete and continuable; the game keeps it in the buffer and
\* changes neither the cursor nor lives, combo, errors, score or state
C19_AlternativeKeptInBuffer ==
    [][(AlternativeTyped /\ ~call'.jv.isComplete) =>
          /\ result'.isValid
          /\ ~result'.isComplete
          /\ result'.canContinue
          /\ userInput' = call'.userInput
          /\ UNCHANGED <<currentPosition, lives, combo, errors, score,
                         gameState>>]_vars

\* "ki", the first kana of an alternate reading, waiting in the buffer at a
\* position whose target is another kana
C19_Witness ==
    /\ gameState = "playing"
    /\ call.op = "input"
    /\ call.position = currentPosition
    /\ currentPosition < Len(Mappings)
    /\ call.userInput = <<"ki">>
    /\ userInput = <<"ki">>
    /\ Includes(BasicPossibleChars(textMapping, currentPosition), <<"ki">>)
    /\ call.jv.isValid /\ ~call.jv.isComplete
    /\ result.isValid /\ result.canContinue /\ ~result.isComplete
    /\ lives = InitialLives

----------------------------------------------------------------------------
\* The shape of the mappings array (specification Spec)

\* the entries emitted for the kana of the reading of the kanji at D
KanjiBlock(D) == {k \in Indices : Mappings[k].displayIndex = D /\ Mappings[k].isKanji}

\* C20: displayIndex never decreases along the mappings array, and the
\* entries of one kanji's reading share displayIndex, displayChar and
\* kanjiWord and are adjacent in the array
C20_BlocksAreContiguous ==
    Aligned =>
        /\ \A k \in Indices :
               k > 1 => Mappings[k - 1].displayIndex <= Mappings[k].displayIndex
        /\ \A j, k \in Indices :
               (Mappings[j].isKanji /\ Mappings[k].isKanji
                   /\ Mappings[j].displayIndex = Mappings[k].displayIndex) =>
                   /\ Mappings[j].displayChar = Mappings[k].displayChar
                   /\ Mappings[j].kanjiWord = Mappings[k].kanjiWord
                   /\ \A m \in Indices :
                          (j <= m /\ m <= k) => m \in KanjiBlock(Mappings[j].displayIndex)

\* a compound whose first kanji has two kana, followed by a second kanji
C20_Witness ==
    /\ Aligned
    /\ \E D \in 0..(Len(displayText) - 1) :
           /\ Cardinality(KanjiBlock(D)) = 2
           /\ \A k \in KanjiBlock(D) : Len(Mappings[k].kanjiWord) >= 2
           /\ KanjiBlock(D + 1) # {}

----------------------------------------------------------------------------
\* The length heuristic of the compound branch (specification HeuristicSpec):
\* a word of kanji registered as a compound only, the input being its reading
\* followed by at most one more kana

InitHeuristic ==
    /\ displayText \in Strings(Kanji, 2, MaxDisplayLen)
    /\ \E R \in Strings(TextKana, 1, MaxReadingLen), tail \in {<<>>, <<"ha">>} :
           /\ inputText = R \o tail
           /\ table = (displayText :> R)
    /\ altWord = NoWord /\ altReadings = <<>> /\ variations = <<>>
    /\ longTexts = {}
    /\ InitCommon

HeuristicSpec == InitHeuristic /\ [][Align]_vars

\* the cursors' first iteration matches a compound of kanji that have no
\* reading of their own, its reading at least as long as the word
InferredCompound ==
    /\ MatchingLengths(0, 0) # {}
    /\ LET L == Longest(MatchingLengths(0, 0))
           word == substring(displayText, 0, L)
       IN  /\ \A i \in 1..L : isKanji(word[i]) /\ ~hasKanaReading(<<word[i]>>)
           /\ Len(getKanaReading(word)) >= L

RECURSIVE SumOver(_, _)
SumOver(f, S) ==
    IF S = {} THEN 0
    ELSE LET x == CHOOSE y \in S : TRUE IN f[x] + SumOver(f, S \ {x})

\* C21: on such a match every kanji receives at least one kana, the kanji's
\* lengths add up to |R|, and the compound's entries are exactly the input
\* positions 0..|R|-1 of its reading
C21_InferredLengthsSumToReading ==
    (Aligned /\ InferredCompound) =>
        LET L == Longest(MatchingLengths(0, 0))
            R == getKanaReading(substring(displayText, 0, L))
            it == Iteration(displayText, inputText, 0, 0)
            len == [D \in 0..(L - 1) |->
                       Cardinality({k \in 1..Len(it.mappings) :
                                       it.mappings[k].displayIndex = D})]
        IN  /\ \A D \in 0..(L - 1) : len[D] >= 1
            /\ SumOver(len, 0..(L - 1)) = Len(R)
            /\ EmittedIndices(it) = 0..(Len(R) - 1)
            /\ it.inputIndex = Len(R)
            /\ \A k \in 1..Len(it.mappings) : Mappings[k] = it.mappings[k]

\* three kanji sharing a reading of five kana: unequal shares
C21_Witness ==
    /\ Aligned /\ InferredCompound
    /\ Len(displayText) = 3
    /\ Len(table[displayText]) = 5
    /\ Cardinality(KanjiBlock(0)) = 1
    /\ Cardinality(KanjiBlock(1)) = 2
    /\ Cardinality(KanjiBlock(2)) = 2

----------------------------------------------------------------------------
\* Partial input and lives (specification GameSpec)

\* C22: a non-empty keystroke whose validation is continuable and not
\* complete only fills the input buffer: cursor, lives, combo, errors, score
\* and state are unchanged; an empty buffer costs no life, no error and no
\* combo
C22_PartialInputOnlyFillsBuffer ==
    [][/\ (Processed /\ call'.userInput # <<>>
              /\ result'.canContinue /\ ~result'.isComplete) =>
              /\ userInput' = call'.userInput
              /\ UNCHANGED <<currentPosition, lives, combo, errors, score,
                             gameState>>
       /\ (Processed /\ call'.userInput = <<>>) =>
              /\ lives' = lives
              /\ errors' = errors
              /\ combo' >= combo
              /\ gameState' # "finished" \/ result'.isComplete]_vars

\* the unvoiced "ha" waiting in the buffer on the way to the voiced target
\* "ba", which only the sequential validator accepts
C22_Witness ==
    /\ gameState = "playing"
    /\ call.op = "input"
    /\ call.position = currentPosition
    /\ currentPosition < Len(Mappings)
    /\ Mappings[currentPosition + 1].inputChar = "ba"
    /\ call.userInput = <<"ha">>
    /\ userInput = <<"ha">>
    /\ ~Includes(BasicPossibleChars(textMapping, currentPosition), <<"ha">>)
    /\ result.canContinue /\ ~result.isComplete
    /\ combo > 0

----------------------------------------------------------------------------
\* The shape of a validation result (specification ValidateSpec)

\* C23: whatever the sequential validator answers, a complete result is
\* valid and a continuable result is valid; at a position that has an entry
\* possibleChars has no duplicates and contains the target character
C23_ResultIsConsistent ==
    call.op = "validate" =>
        /\ result.isComplete => result.isValid
        /\ result.canContinue => result.isValid
        /\ call.position < Len(Mappings) =>
               /\ NoDuplicates(result.possibleChars)
               /\ Contains(result.possibleChars, Target.inputChar)

\* a voiced target validated with the validator's hints, which repeat
\* characters already among the possible ones
C23_Witness ==
    /\ call.op = "validate"
    /\ call.position < Len(Mappings)
    /\ Target.inputChar = "ba"
    /\ call.jv.nextPossibleChars # NoVariations
    /\ call.jv.isValid /\ call.jv.canContinue /\ ~call.jv.isComplete
    /\ call.userInput = <<"ha">>
    /\ result.canContinue /\ result.isValid
    /\ Len(result.possibleChars) = 3

\* the keystroke of this step is not empty and its validation is neither
\* complete nor continuable
WrongKeystroke ==
    /\ Processed
    /\ call'.userInput # <<>>
    /\ ~result'.isComplete
    /\ ~result'.canContinue

\* C24: lives stays within 0..3 and is 0 only when the game is finished, so
\* keystrokes are processed with at least one life; a wrong keystroke, and
\* no other step, takes exactly one life, resets combo and counts an error;
\* outside 'playing' only starting and resuming change anything
C24_LivesOnlyLostOnWrongInput ==
    /\ [](lives \in 0..InitialLives /\ (lives = 0 => gameState = "finished"))
    /\ [][/\ (Processed => lives >= 1)
           /\ (lives' < lives => WrongKeystroke)
           /\ (WrongKeystroke =>
                  /\ lives' = lives - 1
                  /\ combo' = 0
                  /\ errors' = errors + 1)
           /\ ((gameState # "playing" /\ ~Starts
                    /\ ~(gameState = "paused" /\ gameState' = "playing")) =>
                  UNCHANGED vars)]_vars

\* a session lost at its third error, after one character was completed
C24_Witness ==
    /\ gameState = "finished"
    /\ lives = 0
    /\ errors = InitialLives
    /\ currentPosition = 1
    /\ combo = 0
    /\ call.op = "input" /\ call.userInput # <<>>
    /\ ~result.isComplete /\ ~result.canContinue

====
